---- MODULE Spec2Model ----
(***************************************************************************)
(* Model of the manga-ocr command listener (src/src/listener.py).          *)
(*                                                                         *)
(* Strings of the program are sequences of tokens: a word such as "hold"   *)
(* or "/a" is one token without a colon in it, ":" is one colon, NL and    *)
(* BLANK are whitespace.  Splitting, stripping and joining are computed    *)
(* on these sequences as Python computes them on characters.               *)
(***************************************************************************)
EXTENDS Integers, Sequences, FiniteSets, TLC

\* ---------------------------------------------------------------- bounds
MaxLines == 3      \* lines the producers write over the daemon's lifetime
MaxPipe == 2       \* lines in flight in the FIFO at one time
MaxLiveLines == 2  \* lines written in the specification with fairness

\* ------------------------------------------------------------- constants
SPACE == "<U+3001>"   \* the ideographic comma, written by its code point
PIPE_PATH == "/tmp/manga_ocr.fifo"
IMAGE == "/a"
NL == "\n"
BLANK == " "
COLON == ":"

Paths == {IMAGE, PIPE_PATH}
Kinds == {"none", "file", "dir", "fifo"}

\* The texts the engine stub returns, and its failure.
Texts == {<<"x">>, <<"y", "z">>}
EngineError == "OcrEngineError"
EngineOutcomes ==
    {[ok |-> TRUE, text |-> t] : t \in Texts} \cup {[ok |-> FALSE, text |-> <<>>]}

\* The lines a producer writes: well-formed ones for every kind of action
\* and both paths, and malformed ones with zero and with two delimiters.
Actions == {"hold", "recognize", "stop", "foo"}
WellFormed == {<<a, COLON, COLON, p, NL>> : a \in Actions, p \in Paths}
Malformed ==
    { <<NL>>,
      <<"hold", COLON, IMAGE, NL>>,
      <<"hold", COLON, COLON, IMAGE, COLON, COLON, IMAGE, NL>> }
Lines == WellFormed \cup Malformed

\* The configurations the daemon is started with: the value of the key
\* clip_command in the dictionary get_config returns, or no such key.
Configs ==
    { [has_clip_command |-> FALSE, clip_command |-> <<>>],
      [has_clip_command |-> TRUE,  clip_command |-> <<>>],
      [has_clip_command |-> TRUE,  clip_command |-> <<"myclip", BLANK, "-i">>],
      [has_clip_command |-> TRUE,
       clip_command |-> <<BLANK, "myclip", BLANK, "-i", BLANK>>] }

\* The lines written in the specification with fairness.
LiveLines ==
    { <<"hold", COLON, COLON, IMAGE, NL>>,
      <<"recognize", COLON, COLON, IMAGE, NL>>,
      <<"stop", COLON, COLON, IMAGE, NL>>,
      <<NL>> }

\* ------------------------------------------------------- pure functions
Whitespace == {NL, BLANK}

RECURSIVE LStrip(_)
LStrip(s) ==
    IF s # <<>> /\ Head(s) \in Whitespace THEN LStrip(Tail(s)) ELSE s

RECURSIVE RStrip(_)
RStrip(s) ==
    IF s # <<>> /\ s[Len(s)] \in Whitespace
    THEN RStrip(SubSeq(s, 1, Len(s) - 1))
    ELSE s

\* str.strip()
Strip(s) == RStrip(LStrip(s))

\* str.split("::"): leftmost non-overlapping occurrences of the delimiter.
RECURSIVE SplitAcc(_, _)
SplitAcc(s, cur) ==
    IF s = <<>> THEN <<cur>>
    ELSE IF Len(s) >= 2 /\ s[1] = COLON /\ s[2] = COLON
         THEN <<cur>> \o SplitAcc(SubSeq(s, 3, Len(s)), <<>>)
         ELSE SplitAcc(Tail(s), Append(cur, s[1]))

Split(s) == SplitAcc(s, <<>>)

\* str.split(): the words between runs of whitespace, none of them empty.
\* word is the word being read, "" between words.
RECURSIVE WordsAcc(_, _)
WordsAcc(s, word) ==
    IF s = <<>> THEN (IF word = "" THEN <<>> ELSE <<word>>)
    ELSE IF Head(s) \in Whitespace
         THEN (IF word = "" THEN <<>> ELSE <<word>>) \o WordsAcc(Tail(s), "")
         ELSE WordsAcc(Tail(s), word \o Head(s))

Words(s) == WordsAcc(s, "")

\* The value None of clip_args, and a list of arguments.
NoArgs == [is_none |-> TRUE, list |-> <<>>]
ArgList(l) == [is_none |-> FALSE, list |-> l]

\* TrOcrConfig._custom_clip_args: the words of clip_command, None when the
\* configuration has no such key.
custom_clip_args(config) ==
    IF config.has_clip_command
    THEN ArgList(Words(Strip(config.clip_command)))
    ELSE NoArgs

\* str() of a list of strings, and of clip_args.
RECURSIVE ReprItems(_)
ReprItems(l) ==
    IF l = <<>> THEN ""
    ELSE IF Len(l) = 1 THEN "'" \o l[1] \o "'"
    ELSE "'" \o l[1] \o "', " \o ReprItems(Tail(l))

Str(args) == IF args.is_none THEN "None" ELSE "[" \o ReprItems(args.list) \o "]"

\* SPACE.join(parts)
RECURSIVE Join(_)
Join(parts) ==
    IF parts = <<>> THEN <<>>
    ELSE IF Len(parts) = 1 THEN parts[1]
    ELSE parts[1] \o <<SPACE>> \o Join(Tail(parts))

\* line.strip().split("::")
Fields(line) == Split(Strip(line))

\* A constructor that ignores fields after the second.
MakesCommandLoose(fields) == Len(fields) >= 2

\* OcrCommand(*fields): a dataclass of exactly two positional fields; any
\* other number of arguments raises TypeError.
MakesCommand(fields) == Len(fields) = 2

OcrCommand(fields) == [action |-> fields[1], file_path |-> fields[2]]

\* os.path.exists(path): an entry of any kind is there.
exists(f, path) ==
    /\ Len(path) = 1
    /\ path[1] \in DOMAIN f
    /\ f[path[1]] # "none"

\* os.path.isfile(path): a regular file is there.
isfile(f, path) ==
    /\ Len(path) = 1
    /\ path[1] \in DOMAIN f
    /\ f[path[1]] = "file"

\* os.remove(path) of an entry that isfile() has just seen.
remove(f, path) == [f EXCEPT ![path[1]] = "none"]


\* ------------------------------------------------------------- messages
StoppedMsg == <<"Stopped listening.">>

\* The two lines init prints.
ReadingMsg == <<"Reading from " \o PIPE_PATH>>
ClipArgsMsg(args) == <<"Custom clip args: " \o Str(args)>>
HoldingMsg(text) == <<"Holding ">> \o text
CopiedMsg(text) == <<"Copied ">> \o text

\* ------------------------------------------------- the session (a record)
\* on_hold     MangaOcrWrapper._on_hold
\* fs          the file system entries at Paths
\* engine_log  the calls made to the engine: path and outcome
\* clipboard   the texts handed to the clipboard program, in order
\* notes       the messages handed to notify-send, in order
\* console     the messages printed, in order
\* raised      the exception in flight, "none" when there is none
Raising(s) == s.raised # "none"

\* An engine call whose failure is swallowed.
mocr_caught(s, file_path, eng) ==
    IF Raising(s) THEN s
    ELSE [s EXCEPT !.engine_log = Append(@, [path |-> file_path, out |-> eng])]

\* self._mocr(file_path): the engine returns the text eng, or fails.
mocr(s, file_path, eng) ==
    IF Raising(s) THEN s
    ELSE [s EXCEPT !.engine_log = Append(@, [path |-> file_path, out |-> eng]),
                   !.raised = IF eng.ok THEN "none" ELSE EngineError]

\* to_clip(text, custom_clip_args): Popen starts a program, or raises
\* because it cannot be started. Without custom arguments the program is the
\* default clipboard program and the text is written to its input; with
\* custom arguments it is the first of [*custom_args, text] and the text
\* is its last argument. When the list of custom arguments is empty the
\* program started is the one named by the text, and no clipboard program
\* receives the text.
to_clip(s, text, custom_args, clipOk) ==
    IF Raising(s) THEN s
    ELSE IF clipOk
         THEN IF custom_args.is_none \/ custom_args.list # <<>>
              THEN [s EXCEPT !.clipboard = Append(@, text)]
              ELSE s
    ELSE [s EXCEPT !.raised = "OSError"]

\* notify_send(msg): print, then start notify-send, or Popen raises.
notify_send(s, msg, noteOk) ==
    IF Raising(s) THEN s
    ELSE IF noteOk
         THEN [s EXCEPT !.console = Append(@, msg), !.notes = Append(@, msg)]
         ELSE [s EXCEPT !.console = Append(@, msg), !.raised = "OSError"]

\* An insert at the front of the list.
prepend_hold(s, text) ==
    IF Raising(s) THEN s ELSE [s EXCEPT !.on_hold = <<text>> \o @]

\* self._on_hold.append(text)
append_hold(s, text) ==
    IF Raising(s) THEN s ELSE [s EXCEPT !.on_hold = Append(@, text)]

\* self._on_hold.clear()
clear_hold(s) ==
    IF Raising(s) THEN s ELSE [s EXCEPT !.on_hold = <<>>]

\* A removal that is done whether or not the case before it raised.
remove_file_always(s, file_path) ==
    [s EXCEPT !.fs = remove(@, file_path)]

\* os.remove(file_path) at the end of the file-exists case
remove_file(s, file_path) ==
    IF Raising(s) THEN s ELSE [s EXCEPT !.fs = remove(@, file_path)]

\* case "hold"
hold(s, file_path, eng, noteOk) ==
    LET s1 == mocr(s, file_path, eng)
        text == eng.text
        s2 == append_hold(s1, text)
    IN  notify_send(s2, HoldingMsg(text), noteOk)

\* case "recognize"
recognize(s, file_path, eng, clipOk, noteOk) ==
    LET s1 == mocr(s, file_path, eng)
        text == Join(s1.on_hold \o <<eng.text>>)
        s2 == to_clip(s1, text, s.clip_args, clipOk)
        s3 == notify_send(s2, CopiedMsg(text), noteOk)
    IN  clear_hold(s3)

\* A dispatch that does not look whether the file is there.
process_command_unguarded(s, command, eng, clipOk, noteOk) ==
    IF command.action = <<"stop">>
    THEN notify_send(s, StoppedMsg, noteOk)
    ELSE LET s1 ==
                 IF command.action = <<"hold">>
                 THEN hold(s, command.file_path, eng, noteOk)
                 ELSE IF command.action = <<"recognize">>
                 THEN recognize(s, command.file_path, eng, clipOk, noteOk)
                 ELSE s
         IN  IF Len(command.file_path) = 1 /\ command.file_path[1] \in DOMAIN s.fs
             THEN remove_file(s1, command.file_path)
             ELSE s1

\* A dispatch whose stop case goes on into the file case.
process_command_stop_falls(s, command, eng, clipOk, noteOk) ==
    LET s0 == IF command.action = <<"stop">>
              THEN notify_send(s, StoppedMsg, noteOk)
              ELSE s
    IN  IF isfile(s.fs, command.file_path)
        THEN LET s1 ==
                     IF command.action = <<"hold">>
                     THEN hold(s0, command.file_path, eng, noteOk)
                     ELSE IF command.action = <<"recognize">>
                     THEN recognize(s0, command.file_path, eng, clipOk, noteOk)
                     ELSE s0
             IN  remove_file(s1, command.file_path)
        ELSE s0

\* MangaOcrWrapper._process_command
process_command(s, command, eng, clipOk, noteOk) ==
    IF command.action = <<"stop">>
    THEN notify_send(s, StoppedMsg, noteOk)
    ELSE IF isfile(s.fs, command.file_path)
    THEN LET s1 ==
                 IF command.action = <<"hold">>
                 THEN hold(s, command.file_path, eng, noteOk)
                 ELSE IF command.action = <<"recognize">>
                 THEN recognize(s, command.file_path, eng, clipOk, noteOk)
                 ELSE s
         IN  remove_file(s1, command.file_path)
    ELSE s

\* is_fifo(path)
is_fifo(f, path) == f[path] = "fifo"

\* prepare_pipe(): the file system after it, and whether mkfifo raised
\* (FileExistsError: an entry that is neither a regular file nor a FIFO).
prepare_pipe(f) ==
    LET f1 == IF isfile(f, <<PIPE_PATH>>) THEN remove(f, <<PIPE_PATH>>) ELSE f
    IN  IF is_fifo(f1, PIPE_PATH) THEN [fs |-> f1, raised |-> "none"]
        ELSE IF f1[PIPE_PATH] = "none"
        THEN [fs |-> [f1 EXCEPT ![PIPE_PATH] = "fifo"], raised |-> "none"]
        ELSE [fs |-> f1, raised |-> "FileExistsError"]


\* ------------------------------------------------------------ the state
VARIABLES
    pc,          \* "start", "closed" (about to call open), "opening" (waiting in
                 \* open), "reading" (in the for loop), "crashed"
    error,       \* the exception that ended the process, "none" while it runs
    fs,          \* Paths -> Kinds
    on_hold,     \* MangaOcrWrapper._on_hold
    engine_log,  \* the engine's calls
    clipboard,   \* texts sent to the clipboard
    notes,       \* notifications sent
    console,     \* messages printed
    pipe,        \* lines written to the FIFO and not yet read, each with its serial number
    writer,      \* a producer holds the FIFO open for writing
    nWritten,    \* lines written so far
    nRead,       \* lines read so far
    held,        \* the engine's results for the hold commands since the last recognize
    lastOpenAt,  \* the number of lines read when the pipe was last opened
    dispatched,  \* the line last taken from the stream, with its serial number
    streams,     \* the read streams on the FIFO that the daemon holds open
    unlinked,    \* someone other than the daemon has removed the FIFO entry
    clip_args    \* TrOcrConfig.clip_args

vars == <<pc, error, fs, on_hold, engine_log, clipboard, notes, console,
          pipe, writer, nWritten, nRead, held, lastOpenAt, dispatched,
          streams, unlinked, clip_args>>

session ==
    [on_hold |-> on_hold, fs |-> fs, engine_log |-> engine_log,
     clipboard |-> clipboard, notes |-> notes, console |-> console,
     clip_args |-> clip_args, raised |-> "none"]

\* MangaOcrWrapper.__init__: the state after construction, on any file system.
Init ==
    /\ pc = "start"
    /\ error = "none"
    /\ fs \in [Paths -> Kinds]
    /\ fs[IMAGE] \in {"none", "file"}
    /\ on_hold = <<>>
    /\ engine_log = <<>>
    /\ clipboard = <<>>
    /\ notes = <<>>
    /\ console = <<>>
    /\ pipe = <<>>
    /\ writer = FALSE
    /\ nWritten = 0
    /\ nRead = 0
    /\ held = <<>>
    /\ lastOpenAt = 0
    /\ dispatched = [id |-> 0, line |-> <<>>]
    /\ streams = 0
    /\ unlinked = FALSE
    /\ clip_args \in {custom_clip_args(c) : c \in Configs}

\* MangaOcrWrapper.init
init ==
    /\ pc = "start"
    /\ LET r == prepare_pipe(fs)
       IN  /\ fs' = r.fs
           /\ pc' = IF r.raised = "none" THEN "closed" ELSE "crashed"
           /\ error' = r.raised
           /\ console' = IF r.raised = "none"
                         THEN console \o <<ReadingMsg, ClipArgsMsg(clip_args)>>
                         ELSE console
    /\ UNCHANGED <<on_hold, engine_log, clipboard, notes,
                   pipe, writer, nWritten, nRead, held, lastOpenAt, dispatched,
                   streams, unlinked, clip_args>>

\* loop: the call open(PIPE_PATH). It raises when there is no entry or a
\* directory at the path, it waits on a FIFO until a producer opens the
\* other end, and it returns at once on a regular file (which has nothing
\* to read: no producer writes to it).
OpenFifo ==
    /\ pc = "closed"
    /\ IF fs[PIPE_PATH] = "fifo"
       THEN /\ pc' = "opening"
            /\ UNCHANGED <<error, lastOpenAt, streams>>
       ELSE IF fs[PIPE_PATH] = "file"
       THEN /\ pc' = "reading"
            /\ lastOpenAt' = nRead
            /\ streams' = streams + 1
            /\ error' = error
       ELSE /\ pc' = "crashed"
            /\ error' = IF fs[PIPE_PATH] = "dir" THEN "IsADirectoryError"
                                               ELSE "FileNotFoundError"
            /\ UNCHANGED <<lastOpenAt, streams>>
    /\ UNCHANGED <<fs, on_hold, engine_log, clipboard, notes, console,
                   pipe, writer, nWritten, nRead, held, dispatched,
                   unlinked, clip_args>>

\* loop: open(PIPE_PATH) returns, a producer having opened the FIFO at the
\* path for writing. With the entry gone no producer finds the FIFO, and
\* the daemon stays in open.
OpenReturns ==
    /\ pc = "opening"
    /\ is_fifo(fs, PIPE_PATH)
    /\ pc' = "reading"
    /\ writer' = TRUE
    /\ lastOpenAt' = nRead
    /\ streams' = streams + 1
    /\ UNCHANGED <<error, fs, on_hold, engine_log, clipboard, notes, console,
                   pipe, nWritten, nRead, held, dispatched,
                   unlinked, clip_args>>

\* The newest element instead of the oldest.
NewestLine(p) == p[Len(p)]

\* The element the for loop takes next from the stream.
NextLine(p) == Head(p)

\* The stream after that element was taken.
RestOfStream(p) == Tail(p)

\* The outcomes the collaborators can have for a line: every outcome for a
\* collaborator that a dispatch of the line may call, one for the others.
EngineInputs(fields) ==
    IF MakesCommand(fields) /\ fields[1] \in {<<"hold">>, <<"recognize">>}
    THEN EngineOutcomes
    ELSE {[ok |-> TRUE, text |-> <<"x">>]}

ClipInputs(fields) ==
    IF MakesCommand(fields) /\ fields[1] = <<"recognize">>
    THEN BOOLEAN
    ELSE {TRUE}

NotifyInputs(fields) ==
    IF MakesCommand(fields) /\ fields[1] \in {<<"hold">>, <<"recognize">>, <<"stop">>}
    THEN BOOLEAN
    ELSE {TRUE}

\* loop: one iteration of the for loop, iter_commands and _process_command.
ReadLine ==
    /\ pc = "reading"
    /\ pipe # <<>>
    /\ \E fields \in {Fields(NextLine(pipe).line)} :
       \E eng \in EngineInputs(fields), clipOk \in ClipInputs(fields),
          noteOk \in NotifyInputs(fields) :
         \E s \in {IF MakesCommand(fields)
                    THEN process_command(session, OcrCommand(fields), eng, clipOk, noteOk)
                    ELSE [session EXCEPT !.raised = "TypeError"]} :
         LET acts == MakesCommand(fields) /\ isfile(fs, fields[2]) /\ eng.ok
         IN  /\ on_hold' = s.on_hold
             /\ fs' = s.fs
             /\ engine_log' = s.engine_log
             /\ clipboard' = s.clipboard
             /\ notes' = s.notes
             /\ console' = s.console
             /\ error' = s.raised
             /\ pc' = IF Raising(s) THEN "crashed" ELSE "reading"
             /\ streams' = IF Raising(s) THEN streams - 1 ELSE streams
             /\ held' = IF acts /\ fields[1] = <<"hold">> THEN Append(held, eng.text)
                        ELSE IF acts /\ fields[1] = <<"recognize">> THEN <<>>
                        ELSE held
    /\ pipe' = RestOfStream(pipe)
    /\ nRead' = nRead + 1
    /\ dispatched' = NextLine(pipe)
    /\ UNCHANGED <<writer, nWritten, lastOpenAt, unlinked, clip_args>>

\* A loop that returns at the end of the stream.
EndOfStreamReturns ==
    /\ pc = "reading"
    /\ pipe = <<>>
    /\ ~writer
    /\ pc' = "returned"
    /\ streams' = streams - 1
    /\ UNCHANGED <<error, fs, on_hold, engine_log, clipboard, notes, console,
                   pipe, writer, nWritten, nRead, held, lastOpenAt, dispatched, unlinked, clip_args>>

\* An end of stream at which the session starts afresh.
EndOfStreamClears ==
    /\ pc = "reading"
    /\ pipe = <<>>
    /\ ~writer
    /\ pc' = "closed"
    /\ on_hold' = <<>>
    /\ streams' = streams - 1
    /\ UNCHANGED <<error, fs, engine_log, clipboard, notes, console,
                   pipe, writer, nWritten, nRead, held, lastOpenAt, dispatched, unlinked, clip_args>>

\* An end of stream that leaves the stream open.
EndOfStreamLeaks ==
    /\ pc = "reading"
    /\ pipe = <<>>
    /\ ~writer
    /\ pc' = "closed"
    /\ UNCHANGED <<error, fs, on_hold, engine_log, clipboard, notes, console,
                   pipe, writer, nWritten, nRead, held, lastOpenAt, dispatched,
                   streams, unlinked, clip_args>>

\* loop: the stream ends (no producer, nothing left), the with block closes it.
EndOfStream ==
    /\ pc = "reading"
    /\ pipe = <<>>
    /\ ~writer
    /\ pc' = "closed"
    /\ streams' = streams - 1
    /\ UNCHANGED <<error, fs, on_hold, engine_log, clipboard, notes, console,
                   pipe, writer, nWritten, nRead, held, lastOpenAt, dispatched, unlinked, clip_args>>

\* A producer writes one line of L, at most max lines being written in all.
WriteFrom(L, max) ==
    /\ pc = "reading"
    /\ writer
    /\ nWritten < max
    /\ Len(pipe) < MaxPipe
    /\ \E line \in L :
         pipe' = Append(pipe, [id |-> nWritten + 1, line |-> line])
    /\ nWritten' = nWritten + 1
    /\ UNCHANGED <<pc, error, fs, on_hold, engine_log, clipboard, notes, console,
                   writer, nRead, held, lastOpenAt, dispatched,
                   streams, unlinked, clip_args>>

\* The producer closes its end.
CloseWriter ==
    /\ pc = "reading"
    /\ writer
    /\ writer' = FALSE
    /\ UNCHANGED <<pc, error, fs, on_hold, engine_log, clipboard, notes, console,
                   pipe, nWritten, nRead, held, lastOpenAt, dispatched,
                   streams, unlinked, clip_args>>

\* A producer saves a screenshot at the image path.
Capture ==
    /\ pc # "crashed"
    /\ fs[IMAGE] = "none"
    /\ fs' = [fs EXCEPT ![IMAGE] = "file"]
    /\ UNCHANGED <<pc, error, on_hold, engine_log, clipboard, notes, console,
                   pipe, writer, nWritten, nRead, held, lastOpenAt, dispatched,
                   streams, unlinked, clip_args>>

\* Someone other than the daemon removes the FIFO entry.
Unlink ==
    /\ pc \in {"closed", "opening", "reading"}
    /\ fs[PIPE_PATH] = "fifo"
    /\ fs' = [fs EXCEPT ![PIPE_PATH] = "none"]
    /\ unlinked' = TRUE
    /\ UNCHANGED <<pc, error, on_hold, engine_log, clipboard, notes, console,
                   pipe, writer, nWritten, nRead, held, lastOpenAt, dispatched,
                   streams, clip_args>>

Write == WriteFrom(Lines, MaxLines)

LiveWrite == WriteFrom(LiveLines, MaxLiveLines)

Next ==
    \/ init
    \/ OpenFifo
    \/ OpenReturns
    \/ ReadLine
    \/ EndOfStream
    \/ Write
    \/ CloseWriter
    \/ Capture
    \/ Unlink

Spec == Init /\ [][Next]_vars

\* The loop is a single thread that always takes its next step, and a next
\* producer always comes to open the FIFO.
LiveNext ==
    \/ init
    \/ OpenFifo
    \/ OpenReturns
    \/ ReadLine
    \/ EndOfStream
    \/ LiveWrite
    \/ CloseWriter
    \/ Capture

LiveSpec ==
    /\ Init
    /\ [][LiveNext]_vars
    /\ WF_vars(OpenFifo)
    /\ WF_vars(OpenReturns)
    /\ WF_vars(ReadLine)
    /\ WF_vars(EndOfStream)


\* =================================================================
\* Properties
\* =================================================================

\* The number of "::" delimiters in a line, counted from the left.
RECURSIVE Delims(_)
Delims(s) ==
    IF Len(s) < 2 THEN 0
    ELSE IF s[1] = COLON /\ s[2] = COLON
         THEN 1 + Delims(SubSeq(s, 3, Len(s)))
         ELSE Delims(Tail(s))

\* The parts of a text between its separators.
RECURSIVE PiecesAcc(_, _)
PiecesAcc(text, cur) ==
    IF text = <<>> THEN <<cur>>
    ELSE IF Head(text) = SPACE
         THEN <<cur>> \o PiecesAcc(Tail(text), <<>>)
         ELSE PiecesAcc(Tail(text), Append(cur, Head(text)))

Pieces(text) == PiecesAcc(text, <<>>)

\* This step reads the oldest line in the pipe.
Reads == pc = "reading" /\ pipe # <<>> /\ nRead' = nRead + 1

\* The line "a::p".
CommandLine(a, p) == <<a, COLON, COLON, p, NL>>

\* This step reads the line "a::p".
Dispatches(a, p) == Reads /\ Head(pipe).line = CommandLine(a, p)

\* A step that does not return to the loop ends the daemon with the error
\* of a collaborator: the engine's, or the OSError of a program that could
\* not be started.
EndsOnlyByCollaborator ==
    pc' # "reading" => pc' = "crashed" /\ error' \in {EngineError, "OSError"}

\* The step returns to the loop.
Completes == pc' = "reading"

\* The step made exactly one engine call, on p, and the engine returned t.
EngineReturned(p, t) ==
    engine_log' = Append(engine_log, [path |-> <<p>>, out |-> [ok |-> TRUE, text |-> t]])

\* The step made exactly one engine call, on p, and the engine failed.
EngineFailed(p) ==
    engine_log' = Append(engine_log, [path |-> <<p>>, out |-> [ok |-> FALSE, text |-> <<>>]])

\* The step has no effect outside the stream.
NoEffect ==
    /\ UNCHANGED <<on_hold, engine_log, clipboard, notes, console, fs>>
    /\ pc' = "reading"
    /\ error' = "none"

\* C1: a recognize command on an existing file that completes, after N hold
\* commands whose engine results were T_1..T_N (held), sends to the clipboard
\* one text whose parts between the separators are exactly T_1, .., T_N and
\* the engine's result for the recognize, in that order, and leaves the
\* hold buffer empty.
C1_HoldsThenRecognize ==
    [][\A p \in Paths :
         Dispatches("recognize", p) /\ fs[p] = "file" /\ Completes
         => /\ \E t \in Texts :
                 /\ EngineReturned(p, t)
                 /\ Len(clipboard') = Len(clipboard) + 1
                 /\ SubSeq(clipboard', 1, Len(clipboard)) = clipboard
                 /\ Pieces(clipboard'[Len(clipboard')]) = held \o <<t>>
            /\ on_hold' = <<>>
            /\ pipe' = Tail(pipe)]_vars

\* C2: a hold command on an existing file sends nothing to the clipboard,
\* and when it completes the hold buffer is the old one with the engine's
\* result appended at the end and the file is gone; it fails to complete
\* only when a collaborator fails.
C2_HoldAppends ==
    [][\A p \in Paths :
         Dispatches("hold", p) /\ fs[p] = "file"
         => /\ clipboard' = clipboard
            /\ EndsOnlyByCollaborator
            /\ Completes
               => \E t \in Texts :
                    /\ EngineReturned(p, t)
                    /\ on_hold' = Append(on_hold, t)
                    /\ fs' = [fs EXCEPT ![p] = "none"]]_vars

\* Two hold commands with different results have been processed.
C2_Witness ==
    /\ dispatched.line = CommandLine("hold", IMAGE)
    /\ Len(on_hold) = 2
    /\ on_hold[1] # on_hold[2]
    /\ fs[IMAGE] = "none"
    /\ clipboard = <<>>
    /\ pc = "reading"

\* C3: a recognize command on an existing file with an empty hold buffer,
\* the engine returning T, sends exactly T to the clipboard, and sends
\* nothing else.
C3_RecognizeAlone ==
    [][\A p \in Paths :
         Dispatches("recognize", p) /\ fs[p] = "file" /\ on_hold = <<>>
         => \A t \in Texts :
              EngineReturned(p, t)
              => /\ clipboard' \in {clipboard, Append(clipboard, t)}
                 /\ Completes => clipboard' = Append(clipboard, t)]_vars

\* C4 as stated: a command of any action whose file does not exist has no
\* effect at all.
C4_AnyMissingIsNoOp ==
    [][\A a \in Actions, p \in Paths :
         Dispatches(a, p) /\ fs[p] = "none" => NoEffect]_vars

\* C4 as amended: a command of any action other than stop whose file does
\* not exist has no effect: no engine call, nothing sent to the clipboard,
\* no notification, the hold buffer unchanged, no error.
C4_MissingIsNoOp ==
    [][\A a \in Actions \ {"stop"}, p \in Paths :
         Dispatches(a, p) /\ fs[p] = "none" => NoEffect]_vars

\* After a first hold command had filled the buffer and consumed the image
\* file, a recognize command for the same, now missing, file was read and
\* dropped: two lines read, one engine call, the buffer still filled.
C4_Witness ==
    /\ nRead = 2
    /\ dispatched.line = CommandLine("recognize", IMAGE)
    /\ Len(engine_log) = 1
    /\ Len(on_hold) = 1
    /\ notes = <<HoldingMsg(on_hold[1])>>
    /\ clipboard = <<>>
    /\ fs[IMAGE] = "none"
    /\ pc = "reading"

\* C5: a line that does not have exactly one delimiter is dropped and the
\* loop goes on.
C5_MalformedDropped ==
    [][Reads /\ Delims(Head(pipe).line) # 1
       => pc' = "reading" /\ error' = "none"]_vars

\* C6: a line with no delimiter or with two or more never reaches dispatch:
\* no engine call, nothing sent to the clipboard, no notification, the hold
\* buffer and the files unchanged.
C6_MalformedNeverDispatched ==
    [][Reads /\ Delims(Head(pipe).line) # 1
       => UNCHANGED <<on_hold, engine_log, clipboard, notes, console, fs>>]_vars

\* A line with two delimiters was read while the buffer held a text and the
\* image file was there.
C6_Witness ==
    /\ Delims(dispatched.line) = 2
    /\ error = "TypeError"
    /\ on_hold # <<>>
    /\ fs[IMAGE] = "file"

\* C7: a stop command, whatever its path, prints and sends the
\* notification, changes neither the hold buffer nor any file, calls
\* neither the engine nor the clipboard, and leaves the loop running with
\* the lines after it still to be read; the loop ends at a stop command only
\* when the notification program cannot be started.
C7_StopIsAdvisory ==
    [][\A p \in Paths :
         Dispatches("stop", p)
         => /\ UNCHANGED <<on_hold, fs, engine_log, clipboard>>
            /\ console' = Append(console, StoppedMsg)
            /\ pipe' = Tail(pipe)
            /\ \/ /\ pc' = "reading"
                  /\ error' = "none"
                  /\ notes' = Append(notes, StoppedMsg)
               \/ /\ pc' = "crashed"
                  /\ error' = "OSError"
                  /\ notes' = notes]_vars

\* A stop command on an existing file was processed, and after a reopen of
\* the pipe a hold command was processed.
C7_Witness ==
    /\ nRead = 2
    /\ dispatched.line = CommandLine("hold", IMAGE)
    /\ Len(notes) = 2
    /\ notes[1] = StoppedMsg
    /\ on_hold # <<>>
    /\ lastOpenAt = 1
    /\ pc = "reading"

\* C8: whenever the stream has ended the daemon opens the pipe again for
\* the next producer, and again and again all the lines written so far get
\* read, unless an error has ended the daemon.
C8_ReopensAfterDisconnect ==
    /\ (pc = "reading" /\ ~writer /\ pipe = <<>>) ~> (pc = "reading" /\ writer)
    /\ []<>(nRead = nWritten \/ pc = "crashed")

\* A line was read after a reopen that followed earlier reads.
C8_Witness ==
    /\ lastOpenAt > 0
    /\ nRead > lastOpenAt
    /\ pc = "reading"

\* C9: the lines waiting in the pipe are the written and unread ones in the
\* order written, a step reads at most the oldest of them, and the effects
\* of a dispatch happen only in the step that reads its line (no other step
\* of the loop prints or deletes a file; startup prints its two lines).
C9_InOrderOneAtATime ==
    [][/\ \A i \in 1..Len(pipe) : pipe[i].id = nRead + i
       /\ nRead' \in {nRead, nRead + 1}
       /\ Reads => /\ dispatched' = Head(pipe)
                   /\ dispatched'.id = nRead + 1
                   /\ pipe' = Tail(pipe)
                   /\ Len(engine_log') <= Len(engine_log) + 1
       /\ ~Reads => /\ UNCHANGED <<on_hold, engine_log, clipboard, notes>>
                    /\ pc # "start"
                       => /\ console' = console
                          /\ \A p \in Paths : fs[p] = "file" => fs'[p] = "file"]_vars

\* Three lines have been read in the order written, two of them reaching
\* the engine.
C9_Witness ==
    /\ nRead = 3
    /\ dispatched.id = 3
    /\ Len(engine_log) = 2
    /\ pc = "reading"

\* C10: when the engine fails in a hold or recognize command the daemon
\* ends with the engine's error, and once ended it reads no further line.
C10_EngineFailureIsFatal ==
    [][/\ \A a \in {"hold", "recognize"}, p \in Paths :
            Dispatches(a, p) /\ fs[p] = "file" /\ EngineFailed(p)
            => pc' = "crashed" /\ error' = EngineError
       /\ pc = "crashed" => pc' = "crashed" /\ nRead' = nRead]_vars

\* The engine failed while a later line was waiting in the pipe.
C10_Witness ==
    /\ dispatched.line = CommandLine("recognize", IMAGE)
    /\ pc = "crashed"
    /\ error = EngineError
    /\ pipe # <<>>
    /\ engine_log # <<>>
    /\ ~engine_log[Len(engine_log)].out.ok

\* C11: a failure of the clipboard program or of the notification program
\* is never fatal: a recognize command on an existing file for which the
\* engine returned a text always returns to the loop with the hold buffer
\* cleared and the file deleted, and a hold or stop command always returns
\* to the loop.
C11_GatewayFailureNotFatal ==
    [][\A a \in {"hold", "recognize", "stop"}, p \in Paths :
         Dispatches(a, p) /\ (a = "stop" \/ fs[p] = "file")
         /\ (a = "stop" \/ \E t \in Texts : EngineReturned(p, t))
         => /\ pc' = "reading"
            /\ error' = "none"
            /\ a = "recognize" => on_hold' = <<>> /\ fs'[p] = "none"]_vars

\* C12: whatever entry is at the pipe path at startup (none, a regular
\* file, a directory, a FIFO), prepare_pipe establishes a FIFO there and
\* the daemon goes on to its loop; a FIFO already there is left as it is;
\* and a second call of prepare_pipe changes nothing.
C12_EnsureEstablishesFifo ==
    [][pc = "start" /\ pc' # "start"
       => /\ pc' = "closed"
          /\ error' = "none"
          /\ fs'[PIPE_PATH] = "fifo"
          /\ fs'[IMAGE] = fs[IMAGE]
          /\ fs[PIPE_PATH] = "fifo" => fs' = fs
          /\ prepare_pipe(fs').fs = fs'
          /\ prepare_pipe(fs').raised = "none"]_vars

\* C13: a command whose action is none of hold, recognize and stop has no
\* effect, whether or not its file exists: no engine call, nothing sent to
\* the clipboard, no notification, the hold buffer unchanged and no file
\* deleted.
C13_UnknownActionIsNoOp ==
    [][\A p \in Paths : Dispatches("foo", p) => NoEffect]_vars

\* The number of parts of all the texts sent to the clipboard.
RECURSIVE TotalPieces(_)
TotalPieces(clip) ==
    IF clip = <<>> THEN 0
    ELSE Len(Pieces(Head(clip))) + TotalPieces(Tail(clip))

\* The number of engine calls that returned a text.
RECURSIVE OkCalls(_)
OkCalls(log) ==
    IF log = <<>> THEN 0
    ELSE (IF Head(log).out.ok THEN 1 ELSE 0) + OkCalls(Tail(log))

\* C14: whenever the daemon waits for the next command (at the open or in
\* the for loop) the hold buffer is, in order, the engine's results for the
\* hold commands processed since the last recognize command, whatever
\* reopens of the pipe lie in between; and the texts sent to the clipboard
\* never have more parts in all than the engine returned texts, so no text
\* is flushed twice.
C14_HoldBufferSinceLastFlush ==
    /\ pc \in {"closed", "opening", "reading"} => on_hold = held
    /\ TotalPieces(clipboard) <= OkCalls(engine_log)

\* A text held during one pipe-open was flushed by a recognize command that
\* arrived on the next pipe-open.
C14_Witness ==
    /\ nRead = 2
    /\ lastOpenAt = 1
    /\ dispatched.line = CommandLine("recognize", IMAGE)
    /\ Len(clipboard) = 1
    /\ Len(Pieces(clipboard[1])) = 2
    /\ on_hold = <<>>
    /\ pc = "reading"

\* Startup has completed: the daemon is in its loop, or an error ended it
\* there.
Started ==
    \/ pc \in {"closed", "opening", "reading"}
    \/ pc = "crashed" /\ error # "FileExistsError"

\* C15: once startup has completed the FIFO is at the pipe path, whatever
\* commands were processed and however often the pipe was reopened, unless
\* someone other than the daemon has removed it.
C15_DaemonKeepsFifo ==
    Started /\ ~unlinked => fs[PIPE_PATH] = "fifo"

\* After a reopen, a hold command whose path is the pipe path was read, and
\* the FIFO is still there.
C15_Witness ==
    /\ nRead = 2
    /\ lastOpenAt = 1
    /\ dispatched.line = CommandLine("hold", PIPE_PATH)
    /\ pc = "reading"
    /\ ~unlinked
    /\ fs[PIPE_PATH] = "fifo"

\* C16: when the open of the FIFO fails in the loop after startup, the
\* daemon does not end: it stays in the loop to open the FIFO again.
C16_OpenFailureRecovered ==
    [][pc = "closed" /\ ~is_fifo(fs, PIPE_PATH) => pc' # "crashed"]_vars

\* C17: the daemon holds at most one read stream on the FIFO, it holds one
\* exactly while it is in the for loop, and none after the end of a stream,
\* after an error or before the next open.
C17_OneStream ==
    /\ streams \in {0, 1}
    /\ streams = 1 <=> pc = "reading"

\* An error in the for loop of a second pipe-open ended the daemon, and the
\* stream is closed.
C17_Witness ==
    /\ pc = "crashed"
    /\ error = "TypeError"
    /\ lastOpenAt >= 1
    /\ nRead > lastOpenAt
    /\ streams = 0

\* C18: when the engine call of a hold or recognize command fails, the hold
\* buffer is as it was, nothing has been sent to the clipboard, no message
\* has been printed or notified, and the file is still there.
C18_FailedCallHasNoEffect ==
    [][\A a \in {"hold", "recognize"}, p \in Paths :
         Dispatches(a, p) /\ fs[p] = "file" /\ EngineFailed(p)
         => /\ UNCHANGED <<on_hold, clipboard, notes, console, fs>>
            /\ fs'[p] = "file"]_vars

\* The engine failed on a hold command while the hold buffer was not empty:
\* the buffer and the file are still there.
C18_Witness ==
    /\ dispatched.line = CommandLine("hold", IMAGE)
    /\ pc = "crashed"
    /\ error = EngineError
    /\ Len(engine_log) = 2
    /\ engine_log[1].out.ok
    /\ ~engine_log[2].out.ok
    /\ on_hold = <<engine_log[1].out.text>>
    /\ fs[IMAGE] = "file"
    /\ clipboard = <<>>

\* C19: the deletion of the file is the last step of a hold or recognize
\* command: in a step of a hold that deletes the file the engine's text has
\* been appended to the hold buffer and notified, in a step of a recognize
\* that deletes it the joined text has been sent to the clipboard and the
\* hold buffer is empty, and a step that ends the daemon deletes nothing.
C19_DeletionIsLast ==
    [][/\ \A p \in Paths :
            Dispatches("hold", p) /\ fs[p] = "file" /\ fs'[p] = "none"
            => \E t \in Texts :
                 /\ EngineReturned(p, t)
                 /\ on_hold' = Append(on_hold, t)
                 /\ notes' = Append(notes, HoldingMsg(t))
                 /\ Completes
       /\ \A p \in Paths :
            Dispatches("recognize", p) /\ fs[p] = "file" /\ fs'[p] = "none"
            => \E t \in Texts :
                 /\ EngineReturned(p, t)
                 /\ clipboard' = Append(clipboard, Join(on_hold \o <<t>>))
                 /\ notes' = Append(notes, CopiedMsg(Join(on_hold \o <<t>>)))
                 /\ on_hold' = <<>>
                 /\ Completes
       /\ Reads /\ pc' = "crashed" => fs' = fs]_vars

====
